---- MODULE Spec2Model ----
(***************************************************************************)
(* The entity registry of ecs-for-ts-foundation (src/src/entities.ts) with *)
(* the part of Entity (src/src/entity.ts) the registry relies on.          *)
(*                                                                         *)
(* Entity objects are compared by identity (the teardown map is keyed by   *)
(* the object), identifiers by value (the entity table is keyed by the id  *)
(* string): "x1" is a second object that carries the identifier of "e1".   *)
(* Teardown callbacks are functions that may call back into the registry;  *)
(* remove() and clear() are therefore modelled with a call stack, one step *)
(* per callback invocation.                                                *)
(***************************************************************************)
EXTENDS Integers, Sequences, FiniteSets, TLC

\* ------------------------------------------------------------------ bounds

\* Teardown registrations accepted over one run (each gets a fresh token).
MaxRegs == 2

\* ---------------------------------------------------------- the universe

\* Entity objects.
Entity == {"e1", "e2", "x1"}

\* Entity.getId: "x1" was constructed with the identifier of "e1".
getId(e) == IF e = "e2" THEN "id2" ELSE "id1"

\* Component classes (constructors), and the class's name property.
ComponentClass == {1, 2}

className(c) == IF c = 1 THEN "A" ELSE "B"

\* Lists of component instances handed to addComponentsToEntity, each
\* instance given by its constructor.
ComponentLists == {<<>>, <<1>>, <<1, 2>>, <<2, 1>>}

\* Query objects handed to get; an omitted list is the empty list (the code
\* treats both alike).
Queries ==
    { [in |-> <<>>,     notIn |-> <<1>>],
      [in |-> <<1, 2>>, notIn |-> <<>>],
      [in |-> <<2, 1>>, notIn |-> <<>>] }

\* What a teardown callback does when it runs: nothing, or one call back into
\* the registry, or two (`next` is the call it makes when the first has
\* returned).
Scripts ==
    { [call |-> "nop", target |-> "e1", next |-> "none"],
      [call |-> "remove", target |-> "e1", next |-> "none"],
      [call |-> "clear", target |-> "e1", next |-> "none"],
      [call |-> "onTeardown", target |-> "e1", next |-> "none"] }

\* Callbacks that call remove and clear, one of them with an entity object
\* that is not the registered one of its identifier.
ReentrantScripts ==
    { [call |-> "nop", target |-> "e1", next |-> "none"],
      [call |-> "remove", target |-> "e1", next |-> "none"],
      [call |-> "clear", target |-> "e1", next |-> "none"],
      [call |-> "remove", target |-> "x1", next |-> "clear"] }

\* Entity lists handed to onTeardown.
EntityLists ==
    { <<"e1">>, <<"x1">>, <<"e1", "e1">>, <<"e2", "e1">> }

\* --------------------------------------------------------------- helpers

Range(s) == { s[i] : i \in 1..Len(s) }

InSeq(x, s) == \E i \in 1..Len(s) : s[i] = x

\* Array.prototype.reverse
Reverse(s) == [ i \in 1..Len(s) |-> s[Len(s) + 1 - i] ]

\* The array without its last element (Array.prototype.pop)
Front(s) == SubSeq(s, 1, Len(s) - 1)

\* ----------------------------------------------------------------- state

VARIABLES
    components,                  \* Entity.components: the classes an object holds
    allEntities,                 \* Entities.allEntities
    entitiesByQueryString,       \* Entities.entitiesByQueryString
    entityById,                  \* Entities.entityById, in insertion order
    queryStringsByComponentClass,\* Entities.queryStringsByComponentClass
    setupQueryFlags,             \* Entities.setupQueryFlags
    teardownCallbacks,           \* Entities.teardownCallbacks: object -> array
    arrays,                      \* the callback arrays, by array identity
    stack,                       \* remove()/clear() calls in progress
    regs,                        \* token -> the registration: its entity, what
                                 \* the callback does, the onTeardown call it
                                 \* came with, whether the entity object itself
                                 \* was the registered one
    invoked,                     \* tokens of the callbacks run, in order
    last,                        \* the call that was made last
    handed                       \* the returned list the application keeps:
                                 \* whether the registry still holds that
                                 \* very array, as allEntities ("all") or in
                                 \* the cache under a key ("query"), and what
                                 \* it listed when it was returned

vars == << components, allEntities, entitiesByQueryString, entityById,
           queryStringsByComponentClass, setupQueryFlags, teardownCallbacks,
           arrays, stack, regs, invoked, last, handed >>

registry == << allEntities, entitiesByQueryString, entityById,
               queryStringsByComponentClass, setupQueryFlags >>

teardown == << teardownCallbacks, arrays, stack, regs, invoked >>

\* ---------------------------------------------------------------- Entity

\* Entity.hasComponent: the components object is keyed by the class name.
hasComponent(held, componentClass) ==
    \E d \in held : className(d) = className(componentClass)

\* Entity.addComponent: an instance stored under its class name replaces the
\* one stored there before.
addComponent(held, componentClass) ==
    { d \in held : className(d) # className(componentClass) }
        \cup {componentClass}

\* Entity.addComponents
RECURSIVE addComponents(_, _)
addComponents(held, list) ==
    IF list = <<>> THEN held
    ELSE addComponents(addComponent(held, Head(list)), Tail(list))

\* Entity.removeComponent
removeComponent(held, componentClass) ==
    { d \in held : className(d) # className(componentClass) }

\* Entity.getAllComponentConstructors
getAllComponentConstructors(held) == held

\* ------------------------------------------------- the registry's pieces

\* Map.has / Map.get / Map.set / Map.delete on entityById (a Map keeps its
\* keys in insertion order; [...values()] lists them in that order).
MapHas(map, id) == \E i \in 1..Len(map) : getId(map[i]) = id

MapSet(map, entity) ==
    IF MapHas(map, getId(entity))
    THEN [ i \in 1..Len(map) |->
             IF getId(map[i]) = getId(entity) THEN entity ELSE map[i] ]
    ELSE Append(map, entity)

MapDelete(map, id) ==
    LET Keep(x) == getId(x) # id IN SelectSeq(map, Keep)

\* Entities.find: the registered object of that id, or null ("null").
find(id) ==
    IF MapHas(entityById, id)
    THEN CHOOSE x \in Range(entityById) : getId(x) = id
    ELSE "null"

\* The query string of Entities.get: JSON.stringify of the two lists of class
\* names, each in the order the query gives them.
QueryString(query) ==
    [ in    |-> [ i \in 1..Len(query.in)    |-> className(query.in[i]) ],
      notIn |-> [ i \in 1..Len(query.notIn) |-> className(query.notIn[i]) ] ]

\* The filter of Entities.get: the two while loops over query.in and
\* query.notIn.
Matches(held, query) ==
    /\ \A i \in 1..Len(query.in) : hasComponent(held, query.in[i])
    /\ \A i \in 1..Len(query.notIn) : ~hasComponent(held, query.notIn[i])

\* A lookup that takes an empty cached array for a miss.
CacheHitNonEmpty(cache, queryString) ==
    queryString \in DOMAIN cache /\ cache[queryString] # <<>>

\* The cache lookup of Entities.get: `if (entities)` on the value of
\* Map.get, an array (truthy also when empty) or undefined.
CacheHit(cache, queryString) == queryString \in DOMAIN cache

\* A forEach that stops after the first referenced class.
AddEdgesHead(index, classes, queryString) ==
    IF classes = <<>> THEN index
    ELSE LET c == Head(classes)
             queries == IF c \in DOMAIN index THEN index[c] ELSE <<>>
         IN [ d \in DOMAIN index \cup {c} |->
                IF d # c THEN index[d]
                ELSE IF InSeq(queryString, queries) THEN queries
                ELSE Append(queries, queryString) ]

\* Entities.setupQuery, the forEach over the referenced classes.
RECURSIVE AddEdges(_, _, _)
AddEdges(index, classes, queryString) ==
    IF classes = <<>> THEN index
    ELSE LET c == Head(classes)
             queries == IF c \in DOMAIN index THEN index[c] ELSE <<>>
             grown == IF InSeq(queryString, queries) THEN queries
                      ELSE Append(queries, queryString)
         IN AddEdges([ d \in DOMAIN index \cup {c} |->
                         IF d = c THEN grown ELSE index[d] ],
                     Tail(classes), queryString)

\* A setup that starts the index over.
setupQueryAnew(index, flags, query, queryString) ==
    IF queryString \in flags THEN index
    ELSE AddEdges(<<>>, query.in \o query.notIn, queryString)

\* A setup that forgets the classes of query.notIn.
setupQueryInOnly(index, flags, query, queryString) ==
    IF queryString \in flags THEN index
    ELSE AddEdges(index, query.in, queryString)

\* Entities.setupQuery: the index after the one-time setup.
setupQuery(index, flags, query, queryString) ==
    IF queryString \in flags THEN index
    ELSE AddEdges(index, query.in \o query.notIn, queryString)

\* A flush that empties the cache.
flushEveryQuery(cache, index, componentClasses) == <<>>

\* Entities.flushQueriesForComponentClasses: the cache without the entries
\* of every query string listed under one of the classes.
flushQueriesForComponentClasses(cache, index, componentClasses) ==
    LET flushed == UNION { Range(index[c]) :
                             c \in componentClasses \cap DOMAIN index }
    IN [ k \in DOMAIN cache \ flushed |-> cache[k] ]

\* A flush for an entity that evicts nothing.
flushQueriesForNone(cache, index, held) == cache

\* Entities.flushQueriesForEntity
flushQueriesForEntity(cache, index, held) ==
    flushQueriesForComponentClasses(cache, index,
                                    getAllComponentConstructors(held))

\* A refresh that keeps the array it had.
updateCachedValuesStale(map) == allEntities

\* Entities.updateCachedValues
updateCachedValues(map) == map

\* The application keeps no array of the registry.
NotHeld ==
    [ from |-> "none", key |-> [in |-> <<>>, notIn |-> <<>>],
      entities |-> <<>> ]

\* A registry that goes on using the arrays it has handed out.
ReleasedNever(held, all, keys) == held

\* The registry lets go of arrays: of its list of all entities when `all`
\* (it assigns a new array to allEntities), and of the cached arrays of
\* `keys` (it deletes them from entitiesByQueryString). An array the
\* application keeps is from then on no array of the registry.
Released(held, all, keys) ==
    IF \/ all /\ held.from = "all"
       \/ held.from = "query" /\ held.key \in keys
    THEN NotHeld
    ELSE held

\* The cache keys a step deletes.
Evicted == DOMAIN entitiesByQueryString \ DOMAIN entitiesByQueryString'

\* Entities.getAll / getCount
getAll == allEntities

getCount == Len(allEntities)

\* What get(query) returns in the current state.
GetResult(query) ==
    IF CacheHit(entitiesByQueryString, QueryString(query))
    THEN entitiesByQueryString[QueryString(query)]
    ELSE LET Test(e) == Matches(components[e], query)
         IN SelectSeq(allEntities, Test)

\* ------------------------------------------------------------ call stack

Top == stack[Len(stack)]

\* A call made by application code: no registry call is in progress.
TopLevel == stack = <<>>

\* The running callback makes this call: its first, or the one that follows
\* it (a clear; `target` is then of no account).
CallbackCalls(call, target) ==
    /\ stack # <<>>
    /\ Top.kind = "callback"
    /\ IF Top.pc = 1
       THEN /\ regs[Top.reg].script.call = call
            /\ regs[Top.reg].script.target = target
       ELSE regs[Top.reg].script.next = call

\* The stack once the call made here has returned: a callback returns with
\* its last call, and goes on to its second call after the first.
Caller ==
    IF stack = <<>> THEN stack
    ELSE IF Top.kind = "callback" /\ Top.pc = 1
            /\ regs[Top.reg].script.next # "none"
    THEN [ stack EXCEPT ![Len(stack)].pc = 2 ]
    ELSE Front(stack)

\* The record kept of a completed call.
Completed(op, entity) ==
    [ op |-> op, entity |-> entity, nested |-> stack # <<>> ]

\* ------------------------------------------------------------------ Init

Init ==
    /\ components = [ e \in Entity |-> {} ]
    /\ allEntities = <<>>
    /\ entitiesByQueryString = <<>>
    /\ entityById = <<>>
    /\ queryStringsByComponentClass = <<>>
    /\ setupQueryFlags = {}
    /\ teardownCallbacks = <<>>
    /\ arrays = <<>>
    /\ stack = <<>>
    /\ regs = <<>>
    /\ invoked = <<>>
    /\ last = [ op |-> "new", entity |-> "null", nested |-> FALSE ]
    /\ handed = NotHeld

\* ------------------------------------------------------------ operations

\* A duplicate check that looks for the entity object, not for its id.
addThrowsSameObject(entity) == InSeq(entity, entityById)

\* Entities.add: the duplicate check.
addThrows(entity) == MapHas(entityById, getId(entity))

\* Entities.add
Add(entity) ==
    /\ TopLevel
    /\ IF addThrows(entity)
       THEN /\ last' = Completed("add", entity) @@ [ threw |-> TRUE ]
            /\ UNCHANGED << components, registry, teardown, handed >>
       ELSE /\ entityById' = MapSet(entityById, entity)
            /\ entitiesByQueryString' =
                 flushQueriesForEntity(entitiesByQueryString,
                     queryStringsByComponentClass, components[entity])
            /\ allEntities' = updateCachedValues(entityById')
            /\ handed' = Released(handed, TRUE, Evicted)
            /\ last' = Completed("add", entity) @@ [ threw |-> FALSE ]
            /\ UNCHANGED << components, queryStringsByComponentClass,
                            setupQueryFlags, teardown >>

\* Two queries that list the same classes, in whatever order.
SameSets(q1, q2) ==
    /\ Range(q1.in) = Range(q2.in)
    /\ Range(q1.notIn) = Range(q2.notIn)

\* Which of the cached results list the entity.
Listing(entity) ==
    [ k \in DOMAIN entitiesByQueryString |->
        InSeq(entity, entitiesByQueryString[k]) ]

\* Entities.get
Get(query) ==
    LET queryString == QueryString(query)
        hit == CacheHit(entitiesByQueryString, queryString)
        entities == GetResult(query)
    IN /\ TopLevel
       /\ IF hit
          THEN UNCHANGED << entitiesByQueryString,
                            queryStringsByComponentClass, setupQueryFlags >>
          ELSE /\ queryStringsByComponentClass' =
                    setupQuery(queryStringsByComponentClass, setupQueryFlags,
                               query, queryString)
               /\ setupQueryFlags' = setupQueryFlags \cup {queryString}
               /\ entitiesByQueryString' =
                    [ k \in DOMAIN entitiesByQueryString \cup {queryString} |->
                        IF k = queryString THEN entities
                        ELSE entitiesByQueryString[k] ]
       /\ last' = Completed("get", "null") @@
                    [ query |-> query, result |-> entities, hit |-> hit,
                      after |-> IF last.op # "get" THEN "other"
                                ELSE IF last.query = query THEN "same"
                                ELSE IF SameSets(last.query, query)
                                THEN "permuted" ELSE "other" ]
       /\ UNCHANGED << components, allEntities, entityById, teardown,
                       handed >>

\* Entities.get, `return entities`: the application keeps the array the get
\* recorded in `last` has returned, which is the one the cache holds.
KeepGet ==
    /\ TopLevel
    /\ last.op = "get"
    /\ handed' = [ from |-> "query", key |-> QueryString(last.query),
                   entities |-> last.result ]
    /\ UNCHANGED << components, registry, teardown, last >>

\* Entities.getAll: the application keeps the array it returns.
KeepGetAll ==
    /\ TopLevel
    /\ handed' = [ from |-> "all", key |-> NotHeld.key,
                   entities |-> getAll ]
    /\ UNCHANGED << components, registry, teardown, last >>

\* Entities.addComponentToEntity
AddComponentToEntity(entity, componentClass) ==
    /\ TopLevel
    /\ components' = [ components EXCEPT
                         ![entity] = addComponent(@, componentClass) ]
    /\ entitiesByQueryString' =
         flushQueriesForComponentClasses(entitiesByQueryString,
             queryStringsByComponentClass, {componentClass})
    /\ handed' = Released(handed, FALSE, Evicted)
    /\ last' = Completed("addComponentToEntity", entity) @@
                 [ classes |-> <<componentClass>>,
                   listed |-> Listing(entity) ]
    /\ UNCHANGED << allEntities, entityById, queryStringsByComponentClass,
                    setupQueryFlags, teardown >>

\* Entities.addComponentsToEntity
AddComponentsToEntity(entity, list) ==
    /\ TopLevel
    /\ components' = [ components EXCEPT ![entity] = addComponents(@, list) ]
    /\ entitiesByQueryString' =
         flushQueriesForComponentClasses(entitiesByQueryString,
             queryStringsByComponentClass, Range(list))
    /\ handed' = Released(handed, FALSE, Evicted)
    /\ last' = Completed("addComponentsToEntity", entity) @@
                 [ classes |-> list, listed |-> Listing(entity) ]
    /\ UNCHANGED << allEntities, entityById, queryStringsByComponentClass,
                    setupQueryFlags, teardown >>

\* Entity.addComponent, called on the entity itself.
EntityAddComponent(entity, componentClass) ==
    /\ TopLevel
    /\ components' = [ components EXCEPT
                         ![entity] = addComponent(@, componentClass) ]
    /\ last' = Completed("Entity.addComponent", entity) @@
                 [ classes |-> <<componentClass>> ]
    /\ UNCHANGED << registry, teardown, handed >>

\* Entity.removeComponent, called on the entity itself (the registry has no
\* operation that removes a component).
EntityRemoveComponent(entity, componentClass) ==
    /\ TopLevel
    /\ components' = [ components EXCEPT
                         ![entity] = removeComponent(@, componentClass) ]
    /\ last' = Completed("Entity.removeComponent", entity) @@
                 [ classes |-> <<componentClass>>,
                   held |-> hasComponent(components[entity],
                                         componentClass) ]
    /\ UNCHANGED << registry, teardown, handed >>

\* Entities.onTeardown: the while loop, from the last entity of the list to
\* the first; st holds the teardown map, the arrays and the registrations.
RECURSIVE Register(_, _, _, _, _)
Register(st, entities, i, script, call) ==
    IF i = 0 THEN st
    ELSE IF ~MapHas(entityById, getId(entities[i]))
    THEN Register(st, entities, i - 1, script, call)
    ELSE LET e == entities[i]
             fresh == e \notin DOMAIN st.map
             callbacks == IF fresh THEN Len(st.arrays) + 1 ELSE st.map[e]
             grown == IF fresh THEN Append(st.arrays, <<>>) ELSE st.arrays
             token == Len(st.regs) + 1
         IN Register(
              [ map |-> [ x \in DOMAIN st.map \cup {e} |->
                            IF x = e THEN callbacks ELSE st.map[x] ],
                arrays |-> [ grown EXCEPT ![callbacks] = Append(@, token) ],
                regs |-> Append(st.regs,
                           [ entity |-> e, script |-> script, call |-> call,
                             own |-> InSeq(e, entityById) ]) ],
              entities, i - 1, script, call)

\* The callback a callback registers.
Nop == [ call |-> "nop", target |-> "e1", next |-> "none" ]

\* Entities.onTeardown
OnTeardown(entities, script) ==
    /\ \/ TopLevel
       \/ /\ Len(entities) = 1
          /\ script = Nop
          /\ CallbackCalls("onTeardown", entities[1])
    /\ Len(regs) + Len(entities) <= MaxRegs
    /\ LET st == Register([ map |-> teardownCallbacks, arrays |-> arrays,
                            regs |-> regs ],
                          entities, Len(entities), script, Len(regs) + 1)
       IN /\ teardownCallbacks' = st.map
          /\ arrays' = st.arrays
          /\ regs' = st.regs
          /\ last' = Completed("onTeardown", "null") @@
                       [ entities |-> entities,
                         accepted |-> Len(st.regs) - Len(regs) ]
    /\ stack' = Caller
    /\ UNCHANGED << components, registry, invoked, handed >>

\* An unregistration that stops after the entity table.
UnregisterTableOnly(entity) ==
    /\ entityById' = MapDelete(entityById, getId(entity))
    /\ UNCHANGED << components, allEntities, entitiesByQueryString,
                    queryStringsByComponentClass, setupQueryFlags, handed >>

\* Entities.remove, from "Unregister it" to its end.
Unregister(entity) ==
    /\ entityById' = MapDelete(entityById, getId(entity))
    /\ entitiesByQueryString' =
         flushQueriesForEntity(entitiesByQueryString,
             queryStringsByComponentClass, components[entity])
    /\ allEntities' = updateCachedValues(entityById')
    /\ handed' = Released(handed, TRUE, Evicted)
    /\ UNCHANGED << components, queryStringsByComponentClass,
                    setupQueryFlags >>

\* An array popped as it stands.
DrainOrderAsIs(array) == array

\* The order in which remove and clear put a callback array before they pop
\* it empty: `callbacks.reverse()`.
DrainOrder(array) == Reverse(array)

\* Entities.remove of an entity object: up to the first callback it runs, or
\* to its end when it runs none.
Remove(entity) ==
    /\ TopLevel \/ CallbackCalls("remove", entity)
    /\ LET callbacks == IF entity \in DOMAIN teardownCallbacks
                        THEN teardownCallbacks[entity] ELSE 0
       IN /\ teardownCallbacks' =
               [ x \in DOMAIN teardownCallbacks \ {entity} |->
                   teardownCallbacks[x] ]
          /\ IF callbacks # 0 /\ arrays[callbacks] # <<>>
             THEN /\ arrays' = [ arrays EXCEPT
                                   ![callbacks] = DrainOrder(@) ]
                  /\ stack' = Append(Caller,
                                [ kind |-> "remove", entity |-> entity,
                                  callbacks |-> callbacks,
                                  mark |-> Len(invoked),
                                  known |-> Len(regs) ])
                  /\ UNCHANGED << components, registry, last, handed >>
             ELSE /\ Unregister(entity)
                  /\ stack' = Caller
                  /\ last' = Completed("remove", entity) @@
                               [ ran |-> <<>>, known |-> Len(regs) ]
                  /\ UNCHANGED arrays
    /\ UNCHANGED << regs, invoked >>

\* Entities.remove(null)
RemoveNull ==
    /\ TopLevel
    /\ last' = Completed("remove", "null") @@
                 [ ran |-> <<>>, known |-> Len(regs) ]
    /\ UNCHANGED << components, registry, teardown, handed >>

\* remove and clear: `(callbacks.pop() as () => void)()`, up to the call the
\* callback makes.
Invoke ==
    /\ stack # <<>>
    /\ Top.kind \in {"remove", "clear"}
    /\ arrays[Top.callbacks] # <<>>
    /\ LET array == arrays[Top.callbacks]
           token == array[Len(array)]
       IN /\ arrays' = [ arrays EXCEPT ![Top.callbacks] = Front(array) ]
          /\ invoked' = Append(invoked, token)
          /\ stack' = IF regs[token].script.call = "nop" THEN stack
                      ELSE Append(stack, [ kind |-> "callback",
                                           reg |-> token, pc |-> 1 ])
    /\ UNCHANGED << components, registry, teardownCallbacks, regs, last,
                    handed >>

\* Entities.remove: the callbacks have run.
RemoveReturn ==
    /\ stack # <<>>
    /\ Top.kind = "remove"
    /\ arrays[Top.callbacks] = <<>>
    /\ Unregister(Top.entity)
    /\ stack' = Front(stack)
    /\ last' = [ op |-> "remove", entity |-> Top.entity,
                 nested |-> Len(stack) > 1,
                 ran |-> SubSeq(invoked, Top.mark + 1, Len(invoked)),
                 known |-> Top.known ]
    /\ UNCHANGED << teardownCallbacks, arrays, regs, invoked >>

\* A clear that leaves the one-time setup flags standing.
ClearAllButFlags ==
    /\ allEntities' = <<>>
    /\ entitiesByQueryString' = <<>>
    /\ entityById' = <<>>
    /\ queryStringsByComponentClass' = <<>>
    /\ setupQueryFlags' = setupQueryFlags
    /\ teardownCallbacks' = <<>>
    /\ handed' = Released(handed, TRUE, Evicted)

\* Entities.clear, "Clear all collections".
ClearAll ==
    /\ allEntities' = <<>>
    /\ entitiesByQueryString' = <<>>
    /\ entityById' = <<>>
    /\ queryStringsByComponentClass' = <<>>
    /\ setupQueryFlags' = {}
    /\ teardownCallbacks' = <<>>
    /\ handed' = Released(handed, TRUE, Evicted)

\* Entities.clear: the forEach over the entities of `list`, from the one after
\* position i up to the first callback it runs, or to the end of clear when
\* it runs none.
ClearFrom(base, list, i, mark, known) ==
    LET todo == { j \in (i + 1)..Len(list) :
                    /\ list[j] \in DOMAIN teardownCallbacks
                    /\ arrays[teardownCallbacks[list[j]]] # <<>> }
    IN IF todo = {}
       THEN /\ ClearAll
            /\ stack' = base
            /\ last' = [ op |-> "clear", entity |-> "null",
                         nested |-> base # <<>>,
                         ran |-> SubSeq(invoked, mark + 1, Len(invoked)),
                         known |-> known,
                         full |-> /\ entityById # <<>>
                                  /\ allEntities # <<>>
                                  /\ DOMAIN entitiesByQueryString # {}
                                  /\ DOMAIN queryStringsByComponentClass # {}
                                  /\ setupQueryFlags # {}
                                  /\ DOMAIN teardownCallbacks # {} ]
            /\ UNCHANGED << components, arrays, regs, invoked >>
       ELSE LET j == CHOOSE k \in todo : \A m \in todo : k <= m
                callbacks == teardownCallbacks[list[j]]
            IN /\ arrays' = [ arrays EXCEPT ![callbacks] = DrainOrder(@) ]
               /\ stack' = Append(base,
                             [ kind |-> "clear", list |-> list, i |-> j,
                               callbacks |-> callbacks,
                               mark |-> mark, known |-> known ])
               /\ UNCHANGED << components, registry, teardownCallbacks,
                               regs, invoked, last, handed >>

\* Entities.clear
Clear ==
    /\ TopLevel \/ CallbackCalls("clear", "e1")
    /\ ClearFrom(Caller, allEntities, 0, Len(invoked), Len(regs))

\* Entities.clear: the callbacks of one entity have run.
ClearNext ==
    /\ stack # <<>>
    /\ Top.kind = "clear"
    /\ arrays[Top.callbacks] = <<>>
    /\ ClearFrom(Front(stack), Top.list, Top.i, Top.mark, Top.known)

\* --------------------------------------------------------- specification

\* The entity objects that get registered where "x1" is only handed to
\* remove and onTeardown.
Plain == {"e1", "e2"}

\* Teardown callbacks that call back into the registry, entity objects that
\* share an identifier, and one query over one component class.
Next ==
    \/ \E e \in Plain : Add(e)
    \/ \E e \in Entity : Remove(e)
    \/ RemoveNull
    \/ Invoke
    \/ RemoveReturn
    \/ Clear
    \/ ClearNext
    \/ \E l \in EntityLists, s \in Scripts : OnTeardown(l, s)
    \/ Get([in |-> <<1>>, notIn |-> <<>>])
    \/ AddComponentToEntity("e1", 1)

Spec == Init /\ [][Next]_vars

\* Any of the entity objects is registered; callbacks do nothing.
NextDuplicate ==
    \/ \E e \in Entity : Add(e)
    \/ \E e \in Entity : Remove(e)
    \/ Invoke
    \/ RemoveReturn
    \/ Clear
    \/ ClearNext
    \/ \E e \in Entity : OnTeardown(<<e>>, Nop)
    \/ Get([in |-> <<1>>, notIn |-> <<>>])
    \/ AddComponentToEntity("e1", 1)

SpecDuplicate == Init /\ [][NextDuplicate]_vars

\* Every component change goes through the registry; no callback is
\* registered.
NextRouted ==
    \/ \E e \in Plain : Add(e)
    \/ \E q \in Queries : Get(q)
    \/ \E e \in Plain : Remove(e)
    \/ RemoveNull
    \/ Clear
    \/ \E e \in Plain, c \in ComponentClass : AddComponentToEntity(e, c)
    \/ \E e \in Plain, l \in ComponentLists : AddComponentsToEntity(e, l)

SpecRouted == Init /\ [][NextRouted]_vars

\* Entities are also changed directly, behind the registry's back.
DirectQueries ==
    { [in |-> <<1>>, notIn |-> <<>>],
      [in |-> <<>>,  notIn |-> <<1>>] }

NextDirect ==
    \/ \E e \in Plain : Add(e)
    \/ \E q \in DirectQueries : Get(q)
    \/ \E e \in Plain : Remove(e)
    \/ Clear
    \/ \E e \in Plain, c \in ComponentClass : AddComponentToEntity(e, c)
    \/ \E e \in Plain, c \in ComponentClass : EntityAddComponent(e, c)
    \/ \E e \in Plain, c \in ComponentClass : EntityRemoveComponent(e, c)

SpecDirect == Init /\ [][NextDirect]_vars

\* The application keeps lists that get and getAll returned.
NextSnapshot ==
    \/ \E e \in Plain : Add(e)
    \/ \E q \in DirectQueries : Get(q)
    \/ KeepGet
    \/ KeepGetAll
    \/ \E e \in Plain : Remove(e)
    \/ Clear
    \/ \E e \in Plain, c \in ComponentClass : AddComponentToEntity(e, c)
    \/ \E e \in Plain : AddComponentsToEntity(e, <<1, 2>>)

SpecSnapshot == Init /\ [][NextSnapshot]_vars

\* Callbacks call remove and clear while remove or clear runs them; the
\* application itself registers, removes and hooks "e1" and "e2" only.
NextReentrant ==
    \/ \E e \in Plain : Add(e)
    \/ \E e \in Plain : Remove(e)
    \/ Remove("x1") /\ ~TopLevel
    \/ Invoke
    \/ RemoveReturn
    \/ Clear
    \/ ClearNext
    \/ \E e \in Plain, s \in ReentrantScripts : OnTeardown(<<e>>, s)

SpecReentrant == Init /\ [][NextReentrant]_vars

\* ------------------------------------------------------------------ claims

\* The entity holds every class the query lists in `in` and none it lists in
\* `notIn`.
Satisfies(entity, query) ==
    LET held == { className(c) : c \in components[entity] }
    IN /\ \A i \in 1..Len(query.in) : className(query.in[i]) \in held
       /\ \A i \in 1..Len(query.notIn) : className(query.notIn[i]) \notin held

Registered(entity) == InSeq(entity, entityById)

NoRepeat(s) == \A i, j \in 1..Len(s) : s[i] = s[j] => i = j

\* C1: whatever add, remove, clear, addComponent(s)ToEntity and get calls came
\* before, get(Q) returns exactly the registered entities that satisfy Q, each
\* once.
C1_ScanEquivalence ==
    last.op = "get" =>
        /\ Range(last.result) =
             { e \in Entity : Registered(e) /\ Satisfies(e, last.query) }
        /\ NoRepeat(last.result)

\* C2: addComponentToEntity / addComponentsToEntity on a registered entity e,
\* adding class T: a cached query with T in `in` whose result lacked e lists e
\* at the next get if e now satisfies it; a cached query with T in `notIn`
\* whose result listed e no longer lists e at the next get.
C2_InvalidationOnAdd ==
    ( /\ last.op \in {"addComponentToEntity", "addComponentsToEntity"}
      /\ Registered(last.entity) ) =>
        \A q \in Queries, i \in 1..Len(last.classes) :
            QueryString(q) \in DOMAIN last.listed =>
                /\ ( /\ InSeq(last.classes[i], q.in)
                     /\ ~last.listed[QueryString(q)]
                     /\ Satisfies(last.entity, q) )
                   => InSeq(last.entity, GetResult(q))
                /\ ( /\ InSeq(last.classes[i], q.notIn)
                     /\ last.listed[QueryString(q)] )
                   => ~InSeq(last.entity, GetResult(q))

\* C2 happens: class 1 was added to a registered entity; the cached result
\* for in [1, 2] lacked it and the next get lists it, the cached result for
\* notIn [1] listed it and the next get does not.
C2_Witness ==
    /\ last.op \in {"addComponentToEntity", "addComponentsToEntity"}
    /\ InSeq(1, last.classes)
    /\ Registered(last.entity)
    /\ LET both == [in |-> <<1, 2>>, notIn |-> <<>>]
           without == [in |-> <<>>, notIn |-> <<1>>]
       IN /\ QueryString(both) \in DOMAIN last.listed
          /\ ~last.listed[QueryString(both)]
          /\ InSeq(last.entity, GetResult(both))
          /\ QueryString(without) \in DOMAIN last.listed
          /\ last.listed[QueryString(without)]
          /\ ~InSeq(last.entity, GetResult(without))

\* C3: after Entity.removeComponent takes class T from a registered entity
\* that held it, the next get of a query with T in `in` does not list the
\* entity, and the next get of a query with T in `notIn` that it satisfies
\* lists it.
C3_RemovalInvalidates ==
    ( /\ last.op = "Entity.removeComponent"
      /\ last.held
      /\ Registered(last.entity) ) =>
        \A q \in DirectQueries :
            /\ InSeq(last.classes[1], q.in)
                 => ~InSeq(last.entity, GetResult(q))
            /\ ( InSeq(last.classes[1], q.notIn) /\ Satisfies(last.entity, q) )
                 => InSeq(last.entity, GetResult(q))

\* How often the callback of registration t has run.
Runs(t) == Cardinality({ i \in 1..Len(invoked) : invoked[i] = t })

\* Two callbacks that the call recorded in `last` ran, both registered on the
\* same entity before that call, by different onTeardown calls.
EarlierPair(i, j) ==
    /\ i < j
    /\ last.ran[i] <= last.known
    /\ last.ran[j] <= last.known
    /\ regs[last.ran[i]].entity = regs[last.ran[j]].entity
    /\ regs[last.ran[i]].call # regs[last.ran[j]].call

NoReentry ==
    \A i \in 1..Len(last.ran) :
        regs[last.ran[i]].script.call \notin {"remove", "clear"}

C5_TeardownExactlyOnce ==
    /\ \A t \in 1..Len(regs) : Runs(t) <= 1
    /\ ( TopLevel /\ last.op = "clear" ) =>
           \A t \in 1..last.known : regs[t].own => Runs(t) = 1
    /\ ( TopLevel /\ last.op = "remove" /\ last.entity # "null" ) =>
           \A t \in 1..last.known :
               ( regs[t].own /\ regs[t].entity = last.entity ) => Runs(t) = 1

\* C6: add(e) while an entity of the same identifier is registered throws
\* and leaves the entity table, the materialized list, the cache, the
\* invalidation index, the setup flags and the teardown registry as they
\* were; no two registered entities share an identifier.
UniqueIds ==
    /\ \A i, j \in 1..Len(entityById) :
           getId(entityById[i]) = getId(entityById[j]) => i = j
    /\ \A i, j \in 1..Len(allEntities) :
           getId(allEntities[i]) = getId(allEntities[j]) => i = j

C6_DuplicateRejected ==
    /\ []UniqueIds
    /\ [][ \A e \in Entity :
             ( Add(e) /\ MapHas(entityById, getId(e)) ) =>
                 /\ last'.threw
                 /\ UNCHANGED << components, registry, teardown >> ]_vars

\* C6 happens: add threw for an object that is not the registered one of its
\* identifier, with a cached query and a teardown list in place.
C6_Witness ==
    /\ last.op = "add"
    /\ last.threw
    /\ ~Registered(last.entity)
    /\ DOMAIN entitiesByQueryString # {}
    /\ DOMAIN queryStringsByComponentClass # {}
    /\ DOMAIN teardownCallbacks # {}

\* C7: a get(Q) that directly follows a get(Q) is a cache hit, scans nothing,
\* changes nothing in the registry and returns the same entities in the same
\* order.
C7_CacheStability ==
    [][ ( last.op = "get" /\ Get(last.query) ) =>
            /\ last'.hit
            /\ last'.result = last.result
            /\ UNCHANGED registry ]_vars

\* C7 happens: the second of two consecutive get(Q) returned the empty list
\* while an entity was registered.
C7_Witness ==
    /\ last.op = "get"
    /\ last.after = "same"
    /\ last.result = <<>>
    /\ allEntities # <<>>

\* C8: when clear() has returned, getCount() is 0, getAll() is empty, find
\* finds nothing, every get is empty, and the query cache, the invalidation
\* index, the setup flags and the teardown registry are empty.
C8_Cleared ==
    last.op = "clear" =>
        /\ getCount = 0
        /\ getAll = <<>>
        /\ \A e \in Entity : find(getId(e)) = "null"
        /\ \A q \in Queries \cup DirectQueries : GetResult(q) = <<>>
        /\ DOMAIN entitiesByQueryString = {}
        /\ DOMAIN queryStringsByComponentClass = {}
        /\ setupQueryFlags = {}
        /\ DOMAIN teardownCallbacks = {}

\* C8 happens: clear() returned after it ran a callback, and entities, a
\* cached query, invalidation edges, setup flags and teardown lists were
\* there to drop.
C8_Witness ==
    /\ last.op = "clear"
    /\ last.full
    /\ last.ran # <<>>

\* C9: a get that directly follows the get of a query with the same `in` set
\* and the same `notIn` set, listed in another order, is a cache hit.
C9_OrderIndependentKey ==
    ( last.op = "get" /\ last.after = "permuted" ) => last.hit

\* C10: between calls, the teardown registry holds a callback list only for
\* entity objects whose identifier is in the entity table.
C10_TeardownOnlyRegistered ==
    TopLevel =>
        \A e \in DOMAIN teardownCallbacks : MapHas(entityById, getId(e))

\* The registrations the onTeardown call recorded in `last` made.
NewRegs == (Len(regs) - last.accepted + 1)..Len(regs)

\* C11: onTeardown(entities, cb) records cb once for each listed entity that
\* is registered and nothing for a listed entity that is not; a callback
\* recorded for an entity that was not registered never runs.
C11_SkipsUnregistered ==
    /\ last.op = "onTeardown" =>
           /\ \A t \in NewRegs : Registered(regs[t].entity)
           /\ last.accepted =
                Cardinality({ i \in 1..Len(last.entities) :
                                Registered(last.entities[i]) })
    /\ \A t \in 1..Len(regs) : ~regs[t].own => Runs(t) = 0

\* The entity objects find returns for their identifier.
Found == { e \in Entity : find(getId(e)) = e }

\* C12: getAll() lists exactly the entities that find returns for their
\* identifier, each once, and getCount() is their number (whenever a call
\* has completed, and also while callbacks run).
C12_MaterializedView ==
    /\ Range(getAll) = Found
    /\ NoRepeat(getAll)
    /\ getCount = Cardinality(Found)

\* C12 happens: remove has run a callback and returned, and one of two
\* registered entities is left.
C12_Witness ==
    /\ last.op = "remove"
    /\ last.ran # <<>>
    /\ getCount = 1
    /\ Found # {}

\* C13: when remove(e) has returned, no get lists e; when clear() has
\* returned, no get lists any entity.
C13_RemovedNotReturned ==
    /\ ( last.op = "remove" /\ last.entity # "null" ) =>
           \A q \in Queries : ~InSeq(last.entity, GetResult(q))
    /\ last.op = "clear" =>
           \A q \in Queries : GetResult(q) = <<>>

\* The query key lists the name of the class in `in` or in `notIn`.
References(key, componentClass) ==
    \/ InSeq(className(componentClass), key.in)
    \/ InSeq(className(componentClass), key.notIn)

\* C14: right after an add(e) that did not throw, and right after a
\* remove(e), the cache has no entry for a query key that references a class
\* e holds.
C14_FlushedForEntity ==
    ( \/ last.op = "add" /\ ~last.threw
      \/ last.op = "remove" /\ last.entity # "null" ) =>
        \A k \in DOMAIN entitiesByQueryString, c \in components[last.entity] :
            ~References(k, c)

\* C14 happens: remove(e) has returned for an entity that holds a class; a
\* query key that references the class was evaluated before and is not in the
\* cache, while another entity is still registered.
C14_Witness ==
    /\ last.op = "remove"
    /\ last.entity # "null"
    /\ allEntities # <<>>
    /\ \E k \in setupQueryFlags, c \in components[last.entity] :
           /\ References(k, c)
           /\ k \notin DOMAIN entitiesByQueryString

\* C15: addComponentToEntity and addComponentsToEntity add no cache entry
\* and leave every cache entry whose key references none of the added
\* classes as it was; the entity table, the materialized list, the
\* invalidation edges, the setup flags and the teardown registry stay as
\* they were.
C15_AddComponentFrame ==
    [][ ( /\ stack = <<>>
          /\ stack' = <<>>
          /\ last'.op \in {"addComponentToEntity", "addComponentsToEntity"} )
        =>
          /\ DOMAIN entitiesByQueryString' \subseteq
               DOMAIN entitiesByQueryString
          /\ \A k \in DOMAIN entitiesByQueryString :
                 ( \A i \in 1..Len(last'.classes) :
                       ~References(k, last'.classes[i]) )
                 => /\ k \in DOMAIN entitiesByQueryString'
                    /\ entitiesByQueryString'[k] = entitiesByQueryString[k]
          /\ UNCHANGED << allEntities, entityById,
                          queryStringsByComponentClass, setupQueryFlags,
                          teardown >> ]_vars

\* C15 happens: class 2 was added to an entity that holds class 1; a cached
\* query was evicted and a cached query that references class 1 was kept.
C15_Witness ==
    /\ last.op = "addComponentToEntity"
    /\ last.classes = <<2>>
    /\ 1 \in components[last.entity]
    /\ \E k \in DOMAIN last.listed : k \notin DOMAIN entitiesByQueryString
    /\ \E k \in DOMAIN last.listed \cap DOMAIN entitiesByQueryString :
           References(k, 1)

\* C16: a remove(null), and a remove(x) of an entity object that is not
\* registered, called by the application, leaves the entity table, the
\* materialized list and the teardown registry as they were and runs no
\* callback.
C16_RemoveUnregistered ==
    [][ ( /\ last' # last
          /\ last'.op = "remove"
          /\ ~last'.nested
          /\ ~InSeq(last'.entity, entityById) )
        =>
          /\ last'.ran = <<>>
          /\ UNCHANGED << entityById, allEntities, teardownCallbacks >> ]_vars

\* The remove(e) whose frame is at position n of the stack was called for a
\* registered e and is still running at the start of the step.
RemoveRunning(n) ==
    /\ stack[n].kind = "remove"
    /\ InSeq(stack[n].entity, entityById)

\* The step leaves that remove running: e is still found under its
\* identifier and listed by getAll, and no cache entry is evicted.
StillRegistered(n) ==
    /\ InSeq(stack[n].entity, entityById')
    /\ InSeq(stack[n].entity, allEntities')
    /\ entitiesByQueryString' = entitiesByQueryString

\* The step is the return of that remove: e is out of the entity table and
\* of the materialized list, and the cache entries that reference a class e
\* holds are evicted.
Unregistered(n) ==
    /\ ~MapHas(entityById', getId(stack[n].entity))
    /\ ~InSeq(stack[n].entity, allEntities')
    /\ allEntities' = entityById'
    /\ \A k \in DOMAIN entitiesByQueryString',
          c \in components[stack[n].entity] : ~References(k, c)

\* The step keeps the frame at position n.
FrameStays(n) == n <= Len(stack') /\ stack'[n] = stack[n]

\* No callback run since that remove was called has called remove or clear.
NoReentrySince(n) ==
    \A i \in (stack[n].mark + 1)..Len(invoked') :
        regs[invoked'[i]].script.call \notin {"remove", "clear"}

NoDuplicateEdge ==
    \A c \in DOMAIN queryStringsByComponentClass :
        NoRepeat(queryStringsByComponentClass[c])

\* C18: a step that is not the return of clear() keeps every edge from a
\* class to a query key and every setup flag; no edge is ever recorded
\* twice.
C18_EdgesOnlyGrow ==
    /\ []NoDuplicateEdge
    /\ [][ ( last' = last \/ last'.op # "clear" ) =>
             /\ setupQueryFlags \subseteq setupQueryFlags'
             /\ \A c \in DOMAIN queryStringsByComponentClass :
                    /\ c \in DOMAIN queryStringsByComponentClass'
                    /\ Range(queryStringsByComponentClass[c]) \subseteq
                         Range(queryStringsByComponentClass'[c]) ]_vars

\* C18 happens: addComponentToEntity has evicted a cached query whose setup
\* flag and edges are still there.
C18_Witness ==
    /\ last.op = "addComponentToEntity"
    /\ \E k \in DOMAIN last.listed :
           /\ k \notin DOMAIN entitiesByQueryString
           /\ k \in setupQueryFlags
           /\ \A c \in ComponentClass :
                  References(k, c) =>
                      /\ c \in DOMAIN queryStringsByComponentClass
                      /\ InSeq(k, queryStringsByComponentClass[c])

\* C19: every query key in the cache is listed, once, under every class it
\* references in `in` or `notIn`.
C19_CacheCoveredByEdges ==
    /\ \A k \in DOMAIN entitiesByQueryString, c \in ComponentClass :
           References(k, c) =>
               /\ c \in DOMAIN queryStringsByComponentClass
               /\ InSeq(k, queryStringsByComponentClass[c])
    /\ NoDuplicateEdge

\* C19 happens: a get has just evaluated a query; a query that references
\* two classes is in the cache with a result, next to a query that
\* references one.
C19_Witness ==
    /\ \E k \in DOMAIN entitiesByQueryString :
           /\ References(k, 1)
           /\ References(k, 2)
           /\ entitiesByQueryString[k] # <<>>
    /\ \E k \in DOMAIN entitiesByQueryString : ~References(k, 2)
    /\ last.op = "get"
    /\ ~last.hit

\* What the array the application keeps lists now: as long as the registry
\* holds that array, what the registry has in it.
HeldNow ==
    IF handed.from = "all" THEN allEntities
    ELSE IF handed.from = "query" THEN entitiesByQueryString[handed.key]
    ELSE handed.entities

\* C20: an array that get or getAll returned lists, after whatever add,
\* remove, clear, addComponent(s)ToEntity and get calls, the entities it
\* listed when it was returned, in the same order.
C20_ReturnedListsKept ==
    /\ handed.from = "query" => handed.key \in DOMAIN entitiesByQueryString
    /\ HeldNow = handed.entities

\* C20 happens: the application got an array of one entity from get; a
\* second entity was added since, and the cache still holds that array.
C20_Witness ==
    /\ handed.from = "query"
    /\ Len(handed.entities) = 1
    /\ last.op = "add"
    /\ ~last.threw
    /\ Len(allEntities) = 2

\* No callback has run twice.
NoneTwice == \A t \in 1..Len(regs) : Runs(t) <= 1

\* The step is the return of a remove or clear that the application called
\* and one of whose callbacks has called remove or clear.
ReentrantReturn ==
    /\ Len(stack) = 1
    /\ stack' = <<>>
    /\ Top.kind \in {"remove", "clear"}
    /\ \E i \in (Top.mark + 1)..Len(invoked) :
           regs[invoked[i]].script.call \in {"remove", "clear"}

\* The entities that call removes: the one handed to remove, those registered
\* when clear was called.
RemovedByCall ==
    IF Top.kind = "remove" THEN {Top.entity} ELSE Range(Top.list)

\* C21: when callbacks call remove or clear while remove or clear runs them,
\* no callback runs twice, and when the outer call returns every callback
\* registered before it on an entity it removes has run.
C21_Reentrancy ==
    /\ []NoneTwice
    /\ [][ ReentrantReturn =>
             \A t \in 1..Top.known :
                 regs[t].entity \in RemovedByCall => Runs(t) = 1 ]_vars

====
